---- MODULE Spec2Model ----
(***************************************************************************)
(* Model of meal.py: main -> fetch_html -> parse_html -> generate_html,    *)
(* the weekly cafeteria-menu extraction pipeline.                          *)
(*                                                                         *)
(* Text is a sequence of one-character strings, so that strip, split,      *)
(* join and the date regular expression are computed the way Python and    *)
(* BeautifulSoup compute them.  A DOM element is the sequence of its text  *)
(* nodes in document order (what get_text walks).  Korean literals of the  *)
(* source are written with ASCII stand-ins: a weekday such as "월" is one  *)
(* letter ("M"), the meal kinds are "L" (점심) and "D" (저녁).             *)
(***************************************************************************)
EXTENDS Naturals, Sequences, FiniteSets

\* ------------------------------------------------------------- bounds

\* At most this many <table> elements in a fetched document.
MaxTables == 2
\* At most this many <tr> elements in the schedule table.
MaxRows == 3

\* ------------------------------------------------------- text helpers

\* Python's None, among texts.
None == <<"None">>

\* `not x` for an optional text: None and "" are falsy.
Falsy(x) == x = None \/ x = <<>>

\* str.isspace for one character.
IsSpace(c) == c \in {" ", "\n", "\t"}

\* \d for one character.
IsDigit(c) == c \in {"0", "1", "2", "3", "4", "5", "6", "7", "8", "9"}

RECURSIVE LStrip(_)
LStrip(s) == IF s # <<>> /\ IsSpace(Head(s)) THEN LStrip(Tail(s)) ELSE s

RECURSIVE RStrip(_)
RStrip(s) ==
    IF s # <<>> /\ IsSpace(s[Len(s)]) THEN RStrip(SubSeq(s, 1, Len(s) - 1)) ELSE s

\* str.strip()
Strip(s) == RStrip(LStrip(s))

\* sep.join(parts)
RECURSIVE Join(_, _)
Join(sep, parts) ==
    IF parts = <<>> THEN <<>>
    ELSE IF Len(parts) = 1 THEN parts[1]
    ELSE parts[1] \o sep \o Join(sep, Tail(parts))

\* s.split("\n"): always at least one piece.
RECURSIVE SplitNL(_)
SplitNL(s) ==
    IF \A i \in 1..Len(s) : s[i] # "\n" THEN <<s>>
    ELSE LET i == CHOOSE k \in 1..Len(s) :
                     s[k] = "\n" /\ \A j \in 1..(k - 1) : s[j] # "\n"
         IN <<SubSeq(s, 1, i - 1)>> \o SplitNL(SubSeq(s, i + 1, Len(s)))

\* The stripped, non-empty strings of an element (bs4 _all_strings(strip=True)).
RECURSIVE StrippedStrings(_)
StrippedStrings(nodes) ==
    IF nodes = <<>> THEN <<>>
    ELSE LET t == Strip(Head(nodes))
         IN (IF t = <<>> THEN <<>> ELSE <<t>>) \o StrippedStrings(Tail(nodes))

\* Tag.get_text(sep, strip=True)
get_text(sep, nodes) == Join(sep, StrippedStrings(nodes))

\* ------------------------------------------------ the date expression

\* The end of the whitespace run starting at i (\s*, greedy).
RECURSIVE SkipSpaces(_, _)
SkipSpaces(s, i) ==
    IF i <= Len(s) /\ IsSpace(s[i]) THEN SkipSpaces(s, i + 1) ELSE i

\* r"(\d{2}\.\d{2})\s*\((.)\)" matches s at position i.
MatchAt(s, i) ==
    /\ i + 4 <= Len(s)
    /\ IsDigit(s[i]) /\ IsDigit(s[i + 1]) /\ s[i + 2] = "."
    /\ IsDigit(s[i + 3]) /\ IsDigit(s[i + 4])
    /\ LET j == SkipSpaces(s, i + 5)
       IN /\ j + 2 <= Len(s)
          /\ s[j] = "("
          /\ s[j + 1] # "\n"
          /\ s[j + 2] = ")"

\* re.search: the leftmost match's groups <<group(1), group(2)>>, or <<>>.
re_search(s) ==
    IF \E i \in 1..Len(s) : MatchAt(s, i)
    THEN LET i == CHOOSE k \in 1..Len(s) :
                     MatchAt(s, k) /\ \A j \in 1..(k - 1) : ~MatchAt(s, j)
             j == SkipSpaces(s, i + 5)
         IN <<SubSeq(s, i, i + 4), <<s[j + 1]>>>>
    ELSE <<>>

\* ------------------------------------------------- parse_html: locator

\* The id value the schedule table carries.
ListTableId == "listTable"
\* "일주일간의 식단을", the phrase looked for in a summary attribute.
SummaryPhrase == "SUMMARY_PHRASE"
\* "일주일간 식단 안내", the phrase looked for in a caption's text.
CaptionPhrase == "CAPTION_PHRASE"
\* An attribute or element a table does not have.
NoAttr == "NoAttr"
Absent == <<NoAttr>>

\* `phrase in s`, s a text given phrase by phrase.
Contains(s, phrase) == \E i \in 1..Len(s) : s[i] = phrase

\* The summary filter: lambda s: s and "..." in s
SummaryMatches(t) == t.summary # Absent /\ t.summary # <<>> /\ Contains(t.summary, SummaryPhrase)

\* cap and "..." in cap.get_text()
CaptionMatches(t) == t.caption # Absent /\ Contains(t.caption, CaptionPhrase)

\* soup.find("table", id="listTable"): the first such table from i on, 0 for None.
RECURSIVE ScanId(_, _)
ScanId(tables, i) ==
    IF i > Len(tables) THEN 0
    ELSE IF tables[i].id = ListTableId THEN i
    ELSE ScanId(tables, i + 1)

RECURSIVE ScanSummary(_, _)
ScanSummary(tables, i) ==
    IF i > Len(tables) THEN 0
    ELSE IF SummaryMatches(tables[i]) THEN i
    ELSE ScanSummary(tables, i + 1)

\* for t in soup.find_all("table"): ... break
RECURSIVE ScanCaption(_, _)
ScanCaption(tables, i) ==
    IF i > Len(tables) THEN 0
    ELSE IF CaptionMatches(tables[i]) THEN i
    ELSE ScanCaption(tables, i + 1)

find_by_id(tables) == ScanId(tables, 1)

\* A slip: the summary lookup runs although the id lookup found a table.
find_by_summary_always(table, tables) ==
    IF ScanSummary(tables, 1) # 0 THEN ScanSummary(tables, 1) ELSE table

find_by_summary(table, tables) ==
    IF table = 0 THEN ScanSummary(tables, 1) ELSE table

\* A slip: any table that has a caption is taken.
find_by_caption_any(table, tables) ==
    IF table # 0 THEN table
    ELSE IF \E i \in 1..Len(tables) : tables[i].caption # Absent
         THEN CHOOSE i \in 1..Len(tables) :
                  tables[i].caption # Absent
                  /\ \A j \in 1..(i - 1) : tables[j].caption = Absent
         ELSE 0

find_by_caption(table, tables) ==
    IF table = 0 THEN ScanCaption(tables, 1) ELSE table

\* soup.select_one("div.scedule .date") and its get_text(strip=True).
select_week_range(html) ==
    IF html.date_els = <<>> THEN None ELSE get_text(<<>>, html.date_els[1])

\* ---------------------------------------------- parse_html: one row

\* A slip: a row without a header cell resets the carried date.
DateUpdateReset(tr, md, wd) ==
    IF tr.ths = <<>> THEN <<None, None>>
    ELSE LET date_text == get_text(<<" ">>, tr.ths[1])
             m == re_search(date_text)
         IN IF m # <<>> THEN m ELSE <<Strip(date_text), <<>>>>

\* A slip: a header that does not match keeps the weekday carried so far.
DateUpdateKeepWeekday(tr, md, wd) ==
    IF tr.ths = <<>> THEN <<md, wd>>
    ELSE LET date_text == get_text(<<" ">>, tr.ths[1])
             m == re_search(date_text)
         IN IF m # <<>> THEN m ELSE <<Strip(date_text), wd>>

\* A slip: a header that does not match is ignored.
DateUpdateIgnoreNoMatch(tr, md, wd) ==
    IF tr.ths = <<>> THEN <<md, wd>>
    ELSE LET date_text == get_text(<<" ">>, tr.ths[1])
             m == re_search(date_text)
         IN IF m # <<>> THEN m ELSE <<md, wd>>

\* The carried <<current_md, current_weekday>> after the row's header cell.
DateUpdate(tr, md, wd) ==
    IF tr.ths = <<>> THEN <<md, wd>>
    ELSE LET date_text == get_text(<<" ">>, tr.ths[1])
             m == re_search(date_text)
         IN IF m # <<>> THEN m ELSE <<Strip(date_text), <<>>>>

\* [line.strip() for line in lines if line.strip()]
RECURSIVE StripLines(_)
StripLines(lines) ==
    IF lines = <<>> THEN <<>>
    ELSE LET l == Strip(Head(lines))
         IN (IF l = <<>> THEN <<>> ELSE <<l>>) \o StripLines(Tail(lines))

\* The content cell's lines.
RowItems(content_td) == StripLines(SplitNL(get_text(<<"\n">>, content_td)))

\* A slip: the promoted line stays in items.
TitleFallbackKeep(title, items) ==
    IF title = <<"-">> /\ items # <<>> THEN <<Head(items), items>> ELSE <<title, items>>

\* A slip: the fallback is left out.
TitleFallbackNone(title, items) == <<title, items>>

\* if title == "-" and items: title = items.pop(0)
TitleFallback(title, items) ==
    IF title = <<"-">> /\ items # <<>> THEN <<Head(items), Tail(items)>> ELSE <<title, items>>

\* The record a row of at least four data cells appends.
RowRecord(tr, md, wd) ==
    LET title == get_text(<<>>, tr.tds[2])
        items == RowItems(tr.tds[3])
        tf == TitleFallback(title, items)
    IN [md |-> md, weekday |-> wd, meal |-> get_text(<<>>, tr.tds[1]),
        title |-> tf[1], items |-> tf[2], info |-> get_text(<<>>, tr.tds[4])]

\* A slip: the column-count guard comes before the date update.
RowStepGuardFirst(tr, md, wd, menus) ==
    IF (tr.tds = <<>> /\ tr.ths = <<>>) \/ Len(tr.tds) < 4
    THEN [md |-> md, weekday |-> wd, menus |-> menus]
    ELSE LET cur == DateUpdate(tr, md, wd)
         IN [md |-> cur[1], weekday |-> cur[2],
             menus |-> Append(menus, RowRecord(tr, cur[1], cur[2]))]

\* One iteration of the loop over the rows.
RowStep(tr, md, wd, menus) ==
    IF tr.tds = <<>> /\ tr.ths = <<>>
    THEN [md |-> md, weekday |-> wd, menus |-> menus]
    ELSE LET cur == DateUpdate(tr, md, wd)
         IN IF Len(tr.tds) < 4
            THEN [md |-> cur[1], weekday |-> cur[2], menus |-> menus]
            ELSE [md |-> cur[1], weekday |-> cur[2],
                  menus |-> Append(menus, RowRecord(tr, cur[1], cur[2]))]

\* ------------------------------------------------------ generate_html

\* ord(c), for the characters the inputs use.
Ord(c) ==
    CASE c = "\t" -> 9 [] c = "\n" -> 10 [] c = " " -> 32 [] c = "!" -> 33
      [] c = "&" -> 38 [] c = "(" -> 40 [] c = ")" -> 41 [] c = "-" -> 45
      [] c = "." -> 46 [] c = "0" -> 48 [] c = "1" -> 49 [] c = "2" -> 50
      [] c = "3" -> 51 [] c = "4" -> 52 [] c = "5" -> 53 [] c = "6" -> 54
      [] c = "7" -> 55 [] c = "8" -> 56 [] c = "9" -> 57 [] c = "<" -> 60
      [] c = "D" -> 68 [] c = "L" -> 76 [] c = "M" -> 77 [] c = "T" -> 84
      [] c = "W" -> 87 [] c = "a" -> 97 [] c = "b" -> 98 [] c = "c" -> 99
      [] c = "f" -> 102 [] c = "n" -> 110 [] c = "o" -> 111 [] c = "x" -> 120
      [] c = "~" -> 126
      [] OTHER -> 127

\* a <= b for Python strings.
RECURSIVE TextLeq(_, _)
TextLeq(a, b) ==
    IF a = <<>> THEN TRUE
    ELSE IF b = <<>> THEN FALSE
    ELSE IF Head(a) = Head(b) THEN TextLeq(Tail(a), Tail(b))
    ELSE Ord(Head(a)) < Ord(Head(b))

\* x or ""
OrEmpty(x) == IF Falsy(x) THEN <<>> ELSE x

\* html.escape(s if s is not None else "", quote=True)
RECURSIVE EscChars(_)
EscChars(s) ==
    IF s = <<>> THEN <<>>
    ELSE (CASE Head(s) = "&" -> <<"&", "a", "m", "p", ";">>
            [] Head(s) = "<" -> <<"&", "l", "t", ";">>
            [] Head(s) = ">" -> <<"&", "g", "t", ";">>
            [] Head(s) = "\"" -> <<"&", "q", "u", "o", "t", ";">>
            [] Head(s) = "'" -> <<"&", "#", "x", "2", "7", ";">>
            [] OTHER -> <<Head(s)>>) \o EscChars(Tail(s))

esc(s) == IF s = None THEN <<>> ELSE EscChars(s)

\* The keys of grouped, in insertion order.
RECURSIVE GroupKeys(_)
GroupKeys(menus) ==
    IF menus = <<>> THEN <<>>
    ELSE LET before == GroupKeys(SubSeq(menus, 1, Len(menus) - 1))
             k == <<menus[Len(menus)].md, menus[Len(menus)].weekday>>
         IN IF \E i \in 1..Len(before) : before[i] = k THEN before
            ELSE Append(before, k)

\* grouped[key]
Grouped(menus, key) ==
    LET InGroup(m) == <<m.md, m.weekday>> = key
    IN SelectSeq(menus, InGroup)

\* sorted(keys, key=lambda x: x[0] or ""): a stable sort.
RECURSIVE SortedKeys(_)
SortedKeys(keys) ==
    IF keys = <<>> THEN <<>>
    ELSE LET before == SortedKeys(SubSeq(keys, 1, Len(keys) - 1))
             k == keys[Len(keys)]
             n == Cardinality({i \in 1..Len(before) :
                                  TextLeq(OrEmpty(before[i][1]), OrEmpty(k[1]))})
         IN SubSeq(before, 1, n) \o <<k>> \o SubSeq(before, n + 1, Len(before))

\* One meal card of a day panel.
MealCard(m) ==
    LET info == Strip(OrEmpty(m.info))
        title == Strip(OrEmpty(m.title))
        full_items == (IF title # <<>> /\ title # <<"-">> THEN <<title>> ELSE <<>>)
                          \o m.items
    IN [meal_class |-> IF m.meal = <<"L">> THEN "lunch" ELSE "dinner",
        label |-> esc(m.meal),
        info |-> IF info # <<>> /\ info # <<"-">> THEN esc(info) ELSE None,
        items |-> [i \in 1..Len(full_items) |-> esc(full_items[i])]]

\* A slip: only a key whose md is None is left out.
ShownKeysNotNone(day_keys) ==
    LET Shown(k) == k[1] # None
    IN SelectSeq(day_keys, Shown)

\* The day keys that get a tab and a panel: `if not md: continue`.
ShownKeys(day_keys) ==
    LET Shown(k) == ~Falsy(k[1])
    IN SelectSeq(day_keys, Shown)

\* The page: its meta line, its day tabs and its day panels.
generate_html(week_range, menus) ==
    LET day_keys == SortedKeys(GroupKeys(menus))
        shown == ShownKeys(day_keys)
    IN [meta |-> IF Falsy(week_range) THEN None ELSE esc(week_range),
        tabs |-> [i \in 1..Len(shown) |->
                     [date |-> esc(shown[i][1]), weekday |-> esc(shown[i][2])]],
        panels |-> [i \in 1..Len(shown) |->
                       [date |-> esc(shown[i][1]), weekday |-> esc(shown[i][2]),
                        cards |-> LET g == Grouped(menus, shown[i])
                                  IN [j \in 1..Len(g) |-> MealCard(g[j])]]]]

\* ------------------------------------------------------------- inputs

\* Header cells: "11.10" + "(M)" in two text nodes, "11.11(T)", a text that
\* is no date, a header without text, and a date found inside other text.
ThMon == << <<"1", "1", ".", "1", "0">>, <<" ", "(", "M", ")", "\n">> >>
ThTue == << <<"1", "1", ".", "1", "1", "(", "T", ")">> >>
ThOff == << <<" ", "o", "f", "f", " ">> >>
ThBlank == << <<" ">> >>
ThInside == << <<"9", "1", "2", ".", "2", "5", " ", "\n", "(", "W", ")", "!">> >>

\* Data cells.
TdLunch == << <<"L">> >>
TdDinner == << <<"\n", "D", " ">> >>
TdDash == << <<"-">> >>
TdDashPadded == << <<" ">>, <<"\n", "-", " ">> >>
TdMain == << <<"M">>, <<"a">> >>
TdNote == << <<"n">> >>
TdNone == <<>>
TdThree == << <<"a">>, <<"b">>, <<"c">> >>
TdOne == << <<" ", "a">> >>
TdDashFirst == << <<"-">>, <<"b">> >>
TdRagged == << <<" ", "a", " ", "b", " ", "\n", " ", "\n", "c">>, <<"\n">>, <<"x", " ">> >>

\* The <tr> elements a schedule table is built from.
Rows ==
    { [ths |-> <<ThMon>>, tds |-> <<TdLunch, TdDash, TdThree, TdDash>>],
      [ths |-> <<>>, tds |-> <<TdDinner, TdMain, TdRagged, TdNote>>],
      [ths |-> <<>>, tds |-> <<TdLunch, TdDash, TdThree>>],
      [ths |-> <<ThTue>>, tds |-> <<TdDinner>>],
      [ths |-> <<ThOff>>, tds |-> <<TdLunch, TdDash, TdNone, TdDash>>],
      [ths |-> <<ThBlank>>, tds |-> <<TdDinner, TdDashPadded, TdDashFirst, TdNote>>],
      [ths |-> <<>>, tds |-> <<>>],
      [ths |-> <<>>, tds |-> <<TdLunch, TdDash, TdOne, TdNone, TdNote>>],
      [ths |-> <<ThInside, ThMon>>, tds |-> <<TdDinner, TdNone, TdThree, TdDash>>] }

\* The one row of a table of the locator's documents.
PlainRow == [ths |-> <<ThMon>>, tds |-> <<TdLunch, TdDash, TdThree, TdDash>>]

\* The elements "div.scedule .date" selects: none, one without text, one
\* holding "1~2".
DateEls == { <<>>, << <<>> >>, << << <<" ", "1", "~", "2", "\n">> >>, TdNote >> }

\* The <table> elements of the locator's documents.
Tables ==
    [id : {NoAttr, ListTableId},
     summary : {Absent, <<"x", SummaryPhrase, "y">>, <<"x">>},
     caption : {Absent, <<"x", CaptionPhrase>>, <<"x">>},
     rows : {<<PlainRow>>}]

SeqsUpTo(S, n) == UNION {[1..k -> S] : k \in 0..n}

\* Fetched texts: the empty text, documents of up to MaxTables tables, and
\* documents whose listTable has up to MaxRows rows.
EmptyText == [blank |-> TRUE, date_els |-> <<>>, tables |-> <<>>]

Documents ==
    {[blank |-> FALSE, date_els |-> d, tables |-> ts] :
        d \in DateEls, ts \in SeqsUpTo(Tables, MaxTables)}
    \cup
    {[blank |-> FALSE, date_els |-> <<TdNote>>,
      tables |-> <<[id |-> ListTableId, summary |-> Absent, caption |-> Absent,
                    rows |-> rs]>>] : rs \in SeqsUpTo(Rows, MaxRows)}

\* What requests.get and raise_for_status can do.
Failures == {"ConnectionError", "Timeout", "HTTPError"}

\* ------------------------------------------------------------- state

VARIABLES pc, resp, html, week_range, table, idx, current_md, current_weekday,
          menus, out_file

vars == <<pc, resp, html, week_range, table, idx, current_md, current_weekday,
          menus, out_file>>

Init ==
    /\ pc = "main"
    /\ resp = "none"
    /\ html = EmptyText
    /\ week_range = None
    /\ table = 0
    /\ idx = 0
    /\ current_md = None
    /\ current_weekday = None
    /\ menus = <<>>
    /\ out_file = <<>>

\* tbody.find_all("tr") of the located table.
TableRows == IF table = 0 THEN <<>> ELSE html.tables[table].rows

\* fetch_html: the response text, or "" after a RequestException.
fetch_html ==
    /\ pc = "main"
    /\ \/ \E f \in Failures : resp' = f /\ html' = EmptyText
       \/ \E text \in Documents \cup {EmptyText} : resp' = "ok" /\ html' = text
    /\ pc' = "fetched"
    /\ UNCHANGED <<week_range, table, idx, current_md, current_weekday, menus, out_file>>

\* main: if not html: return
main_abort ==
    /\ pc = "fetched"
    /\ html.blank
    /\ pc' = "aborted"
    /\ UNCHANGED <<resp, html, week_range, table, idx, current_md, current_weekday,
                   menus, out_file>>

\* parse_html: the week range.
parse_week_range ==
    /\ pc = "fetched"
    /\ ~html.blank
    /\ week_range' = select_week_range(html)
    /\ pc' = "find_id"
    /\ UNCHANGED <<resp, html, table, idx, current_md, current_weekday, menus, out_file>>

parse_find_id ==
    /\ pc = "find_id"
    /\ table' = find_by_id(html.tables)
    /\ pc' = "find_summary"
    /\ UNCHANGED <<resp, html, week_range, idx, current_md, current_weekday, menus,
                   out_file>>

parse_find_summary ==
    /\ pc = "find_summary"
    /\ table' = find_by_summary(table, html.tables)
    /\ pc' = "find_caption"
    /\ UNCHANGED <<resp, html, week_range, idx, current_md, current_weekday, menus,
                   out_file>>

parse_find_caption ==
    /\ pc = "find_caption"
    /\ table' = find_by_caption(table, html.tables)
    /\ pc' = "located"
    /\ UNCHANGED <<resp, html, week_range, idx, current_md, current_weekday, menus,
                   out_file>>

\* A slip: a missing table aborts the run.
parse_no_table_abort ==
    /\ pc = "located"
    /\ table = 0
    /\ menus' = <<>>
    /\ pc' = "aborted"
    /\ UNCHANGED <<resp, html, week_range, table, idx, current_md, current_weekday,
                   out_file>>

\* if not table: return week_range, []
parse_no_table ==
    /\ pc = "located"
    /\ table = 0
    /\ menus' = <<>>
    /\ pc' = "parsed"
    /\ UNCHANGED <<resp, html, week_range, table, idx, current_md, current_weekday,
                   out_file>>

\* menus = []; current_md = None; current_weekday = None
parse_start_rows ==
    /\ pc = "located"
    /\ table # 0
    /\ menus' = <<>>
    /\ current_md' = None
    /\ current_weekday' = None
    /\ idx' = 1
    /\ pc' = "rows"
    /\ UNCHANGED <<resp, html, week_range, table, out_file>>

\* for tr in tbody.find_all("tr"): one row.
parse_row ==
    /\ pc = "rows"
    /\ idx <= Len(TableRows)
    /\ LET r == RowStep(TableRows[idx], current_md, current_weekday, menus)
       IN /\ current_md' = r.md
          /\ current_weekday' = r.weekday
          /\ menus' = r.menus
    /\ idx' = idx + 1
    /\ UNCHANGED <<pc, resp, html, week_range, table, out_file>>

\* return week_range, menus
parse_return ==
    /\ pc = "rows"
    /\ idx > Len(TableRows)
    /\ pc' = "parsed"
    /\ UNCHANGED <<resp, html, week_range, table, idx, current_md, current_weekday,
                   menus, out_file>>

\* main: f.write(generate_html(week_range, menus))
main_write ==
    /\ pc = "parsed"
    /\ out_file' = <<generate_html(week_range, menus)>>
    /\ pc' = "done"
    /\ UNCHANGED <<resp, html, week_range, table, idx, current_md, current_weekday,
                   menus>>

Next ==
    \/ fetch_html
    \/ main_abort
    \/ parse_week_range
    \/ parse_find_id
    \/ parse_find_summary
    \/ parse_find_caption
    \/ parse_no_table
    \/ parse_start_rows
    \/ parse_row
    \/ parse_return
    \/ main_write

Spec == Init /\ [][Next]_vars

\* ------------------------------------------- what the claims speak of

\* parse_html has returned.
Returned == pc \in {"parsed", "done"}

\* The rows the loop has gone through.
Seen == IF table # 0 /\ pc \in {"rows", "parsed", "done"} THEN 1..(idx - 1) ELSE {}

HasTh(i) == TableRows[i].ths # <<>>
Emits(i) == Len(TableRows[i].tds) >= 4

\* The place in menus of the record of row i.
RecordIndex(i) == Cardinality({j \in 1..i : Emits(j)})
RecordOf(i) == menus[RecordIndex(i)]

\* The text of row i's header cell.
HeaderText(i) == get_text(<<" ">>, TableRows[i].ths[1])

\* t[i..i+4] is dd.dd, then whitespace up to j, then "(", one character, ")".
IsDateAt(t, i, j) ==
    /\ i >= 1 /\ j >= i + 5 /\ j + 2 <= Len(t)
    /\ \A k \in {i, i + 1, i + 3, i + 4} : IsDigit(t[k])
    /\ t[i + 2] = "."
    /\ \A k \in (i + 5)..(j - 1) : IsSpace(t[k])
    /\ t[j] = "(" /\ t[j + 1] # "\n" /\ t[j + 2] = ")"

HasDate(t) == \E i, j \in 1..Len(t) : IsDateAt(t, i, j)

\* <<md, wd>> are the groups of the leftmost date in t.
IsFirstDate(t, md, wd) ==
    \E i, j \in 1..Len(t) :
        /\ IsDateAt(t, i, j)
        /\ \A i2 \in 1..(i - 1) : \A j2 \in 1..Len(t) : ~IsDateAt(t, i2, j2)
        /\ md = SubSeq(t, i, i + 4)
        /\ wd = <<t[j + 1]>>

\* The pair a header text sets.
IsSetBy(t, md, wd) ==
    IF HasDate(t) THEN IsFirstDate(t, md, wd) ELSE md = t /\ wd = <<>>

\* The last row up to i that has a header cell, 0 if there is none.
LastHeader(i) ==
    IF \E j \in 1..i : HasTh(j)
    THEN CHOOSE j \in 1..i : HasTh(j) /\ \A k \in (j + 1)..i : ~HasTh(k)
    ELSE 0

\* <<md, wd>> is what the last header up to row i set, None without one.
IsCarriedAt(i, md, wd) ==
    IF LastHeader(i) = 0 THEN md = None /\ wd = None
    ELSE IsSetBy(HeaderText(LastHeader(i)), md, wd)

\* s without its leading and trailing whitespace.
Trimmed(s) ==
    LET keep == {k \in 1..Len(s) : ~IsSpace(s[k])}
    IN IF keep = {} THEN <<>>
       ELSE SubSeq(s, CHOOSE a \in keep : \A k \in keep : a <= k,
                      CHOOSE b \in keep : \A k \in keep : b >= k)

\* The trimmed, non-empty lines of one text node, in order.
RECURSIVE NodeLinesFrom(_, _)
NodeLinesFrom(s, from) ==
    IF from > Len(s) + 1 THEN <<>>
    ELSE LET ends == {k \in from..Len(s) : s[k] = "\n"} \cup {Len(s) + 1}
             e == CHOOSE a \in ends : \A k \in ends : a <= k
             line == Trimmed(SubSeq(s, from, e - 1))
         IN (IF line = <<>> THEN <<>> ELSE <<line>>) \o NodeLinesFrom(s, e + 1)

\* The trimmed, non-empty lines of a cell, node after node.
RECURSIVE ContentLines(_)
ContentLines(cell) ==
    IF cell = <<>> THEN <<>>
    ELSE NodeLinesFrom(Head(cell), 1) \o ContentLines(Tail(cell))

\* The text of a cell as one string: its nodes trimmed and put together.
RECURSIVE CellText(_)
CellText(cell) ==
    IF cell = <<>> THEN <<>> ELSE Trimmed(Head(cell)) \o CellText(Tail(cell))

Dash == <<"-">>

\* ------------------------------------------------------------- claims

\* C1: a row without a header cell and with at least four data cells emits a
\* record whose md and weekday are those set by the last earlier row that had
\* a header cell (None and None if there was none), every row that has at
\* least four data cells emits one record, and the carried pair is always the
\* one the last header row set: rows without a header cell never change it.
C1_CarryForward ==
    /\ \A i \in Seen :
          Emits(i) =>
             /\ RecordIndex(i) <= Len(menus)
             /\ ~HasTh(i) => IsCarriedAt(i, RecordOf(i).md, RecordOf(i).weekday)
    /\ pc = "rows" => IsCarriedAt(idx - 1, current_md, current_weekday)

\* C1 witness: the second row has no header cell and its record carries the
\* date "11.10" and the weekday "M" of the first row's header.
C1_Witness ==
    /\ pc = "parsed" /\ table # 0 /\ idx > 2 /\ Len(menus) >= 2
    /\ HasTh(1) /\ ~HasTh(2) /\ Emits(1) /\ Emits(2)
    /\ menus[2].md = <<"1", "1", ".", "1", "0">>
    /\ menus[2].weekday = <<"M">>

\* The loop is at a row of fewer than four data cells.
AtShortRow == pc = "rows" /\ idx <= Len(TableRows) /\ Len(TableRows[idx].tds) < 4

\* C2 as stated: a row of fewer than four data cells, with or without a header
\* cell, emits no record and leaves the carried date as it was.
C2_ShortRowKeepsDate ==
    [][AtShortRow =>
          /\ menus' = menus
          /\ current_md' = current_md
          /\ current_weekday' = current_weekday]_vars

\* C2 amended: a row of fewer than four data cells emits no record; without a
\* header cell it leaves the carried date as it was, with a header cell it
\* leaves the date that header sets (an empty row changes nothing).
C2_ShortRowDate ==
    [][AtShortRow =>
          /\ menus' = menus
          /\ IF HasTh(idx)
             THEN IsSetBy(HeaderText(idx), current_md', current_weekday')
             ELSE current_md' = current_md /\ current_weekday' = current_weekday]_vars

\* C2 witness: after a header-only row "11.11(T)" and a short row without
\* header, nothing is emitted and the carried date is that header's.
C2_Witness ==
    /\ pc = "rows" /\ idx = 3 /\ menus = <<>>
    /\ HasTh(1) /\ ~Emits(1) /\ ~HasTh(2) /\ ~Emits(2) /\ TableRows[2].tds # <<>>
    /\ current_md = <<"1", "1", ".", "1", "1">>
    /\ current_weekday = <<"T">>

\* C3 as stated: no record's title is the placeholder "-".
C3_TitleNeverDash == \A k \in 1..Len(menus) : menus[k].title # Dash

\* C3 amended: a record's title is "-" exactly when the title cell is "-" and
\* the content cell yields no lines or its first line is itself "-".
C3_TitleDashOnlyWithoutLine ==
    \A i \in Seen :
        Emits(i) /\ RecordIndex(i) <= Len(menus) =>
            LET L == ContentLines(TableRows[i].tds[3])
            IN RecordOf(i).title = Dash
                  <=> /\ CellText(TableRows[i].tds[2]) = Dash
                      /\ (L = <<>> \/ L[1] = Dash)

\* C3 witness: records with the title "-" (no content line; a first line "-")
\* beside a record whose title was promoted from the content.
C3_Witness ==
    /\ pc = "parsed" /\ table # 0 /\ Len(menus) = 3
    /\ \E i, j, k \in Seen :
          /\ Emits(i) /\ Emits(j) /\ Emits(k)
          /\ RecordOf(i).title = Dash /\ ContentLines(TableRows[i].tds[3]) = <<>>
          /\ RecordOf(j).title = Dash /\ ContentLines(TableRows[j].tds[3]) # <<>>
          /\ RecordOf(k).title = <<"a">> /\ CellText(TableRows[k].tds[2]) = Dash

\* C4 as stated: md and weekday of a record are both populated or both
\* absent/empty.
C4_BothOrNeither ==
    \A k \in 1..Len(menus) : Falsy(menus[k].md) <=> Falsy(menus[k].weekday)

\* C4 amended: a populated weekday comes with the md of the same header cell's
\* date; weekday is None exactly when md is None; otherwise weekday is empty
\* and md is the whole text of a header cell that holds no date.
C4_WeekdayOnlyWithDate ==
    \A i \in Seen :
        Emits(i) /\ RecordIndex(i) <= Len(menus) =>
            LET md == RecordOf(i).md
                wd == RecordOf(i).weekday
            IN /\ (md = None) <=> (wd = None)
               /\ ~Falsy(wd) =>
                     /\ ~Falsy(md)
                     /\ \E j \in 1..i :
                           HasTh(j) /\ IsFirstDate(HeaderText(j), md, wd)
               /\ (wd = <<>>) =>
                     \E j \in 1..i :
                        HasTh(j) /\ ~HasDate(HeaderText(j)) /\ md = HeaderText(j)

\* C4 witness: a record with md "off" and an empty weekday after a record
\* with both populated.
C4_Witness ==
    /\ pc = "parsed" /\ Len(menus) >= 2
    /\ menus[1].md = <<"1", "1", ".", "1", "0">> /\ menus[1].weekday = <<"M">>
    /\ menus[2].md = <<"o", "f", "f">> /\ menus[2].weekday = <<>>

\* The tables of the document with the id, the summary phrase, the caption phrase.
WithId == {i \in 1..Len(html.tables) : html.tables[i].id = ListTableId}
WithSummary ==
    {i \in 1..Len(html.tables) :
        html.tables[i].summary # Absent
        /\ \E k \in 1..Len(html.tables[i].summary) :
              html.tables[i].summary[k] = SummaryPhrase}
WithCaption ==
    {i \in 1..Len(html.tables) :
        html.tables[i].caption # Absent
        /\ \E k \in 1..Len(html.tables[i].caption) :
              html.tables[i].caption[k] = CaptionPhrase}

First(S) == CHOOSE i \in S : \A j \in S : i <= j

\* The lookup is over.
Located == pc \in {"located", "rows", "parsed", "done"}

\* C5: the table chosen is the first with id listTable if there is one, else
\* the first whose summary holds the phrase if there is one, else the first
\* whose caption holds the phrase, else none; a later strategy's match is
\* never chosen while an earlier strategy has one.
C5_LocatorOrder ==
    Located =>
        table = IF WithId # {} THEN First(WithId)
                ELSE IF WithSummary # {} THEN First(WithSummary)
                ELSE IF WithCaption # {} THEN First(WithCaption)
                ELSE 0

\* C5 witness: the second table is chosen by its id although the first one
\* matches by summary and by caption.
C5_Witness ==
    /\ pc = "located" /\ table = 2
    /\ 1 \in WithSummary /\ 1 \in WithCaption /\ 1 \notin WithId

\* C6: for a document none of whose tables has a marker, parse_html returns
\* no record; and whatever the lookup finds, the week range it returns is the
\* text of the first date element, None when there is none.
C6_NoTableNoRecords ==
    Returned =>
        /\ (WithId = {} /\ WithSummary = {} /\ WithCaption = {}) =>
              table = 0 /\ menus = <<>>
        /\ week_range = IF html.date_els = <<>> THEN None
                        ELSE CellText(html.date_els[1])

\* C6 witness: two tables with rows, ids, summaries and captions but no
\* marker: nothing is extracted and the week range "1~2" is returned.
C6_Witness ==
    /\ pc = "parsed" /\ menus = <<>> /\ table = 0
    /\ Len(html.tables) = 2
    /\ html.tables[1].caption = <<"x">> /\ html.tables[2].summary = <<"x">>
    /\ html.tables[1].rows # <<>>
    /\ week_range = <<"1", "~", "2">>

HasTab(md, wd) ==
    \E f \in 1..Len(out_file) : \E t \in 1..Len(out_file[f].tabs) :
        out_file[f].tabs[t] = [date |-> esc(md), weekday |-> esc(wd)]
HasPanel(md, wd) ==
    \E f \in 1..Len(out_file) : \E t \in 1..Len(out_file[f].panels) :
        /\ out_file[f].panels[t].date = esc(md)
        /\ out_file[f].panels[t].weekday = esc(wd)
        /\ Len(out_file[f].panels[t].cards) = Len(Grouped(menus, <<md, wd>>))

C9_TitleFallback ==
    \A i \in Seen :
        Emits(i) /\ RecordIndex(i) <= Len(menus) =>
            LET L == ContentLines(TableRows[i].tds[3])
                t == CellText(TableRows[i].tds[2])
            IN /\ (t = Dash /\ L # <<>>) =>
                     RecordOf(i).title = L[1] /\ RecordOf(i).items = Tail(L)
               /\ t # Dash => RecordOf(i).title = t /\ RecordOf(i).items = L

\* C9 witness: the title "a" promoted from the lines a, b, c, and a title
\* "Ma" kept beside its three lines.
C9_Witness ==
    /\ pc = "parsed" /\ Len(menus) = 2
    /\ TableRows[1].tds[2] = TdDash
    /\ menus[1].title = <<"a">> /\ menus[1].items = << <<"b">>, <<"c">> >>
    /\ menus[2].title = <<"M", "a">>
    /\ menus[2].items = << <<"a", " ", "b">>, <<"c">>, <<"x">> >>

\* The loop is at a row that has a header cell.
AtHeaderRow == pc = "rows" /\ idx <= Len(TableRows) /\ HasTh(idx)

\* C10: after a row with a header cell the carried pair is set by the header
\* text alone: the groups of its date if it holds one; else, if it is not
\* empty, the whole text and an empty weekday.
C10_DateUpdate ==
    [][AtHeaderRow =>
          LET t == HeaderText(idx)
          IN /\ HasDate(t) => IsFirstDate(t, current_md', current_weekday')
             /\ (~HasDate(t) /\ t # <<>>) =>
                   current_md' = Trimmed(t) /\ current_weekday' = <<>>]_vars

\* C10 witness: the header "off" has replaced the carried "11.10", "M".
C10_Witness ==
    /\ pc = "rows" /\ idx = 3
    /\ HasTh(1) /\ HasDate(HeaderText(1))
    /\ HasTh(2) /\ ~HasDate(HeaderText(2)) /\ HeaderText(2) # <<>>
    /\ current_md = <<"o", "f", "f">> /\ current_weekday = <<>>

====
